---------------------------- MODULE Spec2Model ----------------------------
(***************************************************************************)
(* Model of collatz_visualizer's core (src/src/collatz.rs):                *)
(*   generate_sequence  - the Collatz loop with its overflow guard,        *)
(*                        one action per branch of the loop body;          *)
(*   calculate_stats    - the aggregation pass, as operators that fold     *)
(*                        over the sequence the way the iterators do.      *)
(* and of the application around it (src/src/main.rs):                     *)
(*   CollatzApp::update - one action per message, with the executor's      *)
(*                        tasks and the delivery of their results.         *)
(* u64 is modelled as an unsigned integer of Bits bits.                    *)
(***************************************************************************)
EXTENDS Integers, Sequences, FiniteSets, TLC

VARIABLES
    pc,        \* control position inside / after generate_sequence
    start,     \* generate_sequence's argument
    current,   \* generate_sequence's local `current`
    sequence,  \* the vector being built, then the one handed to calculate_stats
    stats,     \* Option<CollatzStats>: <<>> is None, <<r>> is Some(r)
    app,       \* the CollatzApp struct (src/src/main.rs), a record of its fields
    tasks,     \* the futures handed to the executor that have not run yet
    inbox,     \* results of finished futures, not yet delivered to update
    files,     \* chart files on disk: records [path, chart]
    now,       \* Local::now(), in whole seconds (the filename's resolution)
    batches    \* number of Visualize messages handled: identifies a batch

\* The state of the core functions' calls, and the state of the application.
coreVars == <<pc, start, current, sequence, stats>>
appVars == <<app, tasks, inbox, files, now, batches>>

vars == <<pc, start, current, sequence, stats,
          app, tasks, inbox, files, now, batches>>

---------------------------------------------------------------------------
(* Bounds *)

\* Width of the unsigned integer type standing in for u64.
Bits == 8

\* Cap on the number of elements pushed by one call (keeps a diverging loop finite).
MaxSeqLen == 48

\* Synthetic inputs of calculate_stats: sequences of at most StatMaxLen elements
\* drawn from 0..StatMaxVal together with the values of the documented examples.
StatMaxLen == 5
StatMaxVal == 1

\* Number of Visualize messages (sent by the user or by Randomize) the
\* application handles, and the last second the clock reaches.
MaxVisualize == 2
MaxTime == 1

\* The largest number Randomize draws (`max_rand`, 10000 in the source, far
\* below the seeds whose trajectory leaves u64): scaled with the word width so
\* that, as in the source, no drawn seed is truncated.
max_rand == 2

---------------------------------------------------------------------------
(* The integer type *)

Modulus == 2 ^ Bits

\* u64::MAX
MAX == Modulus - 1

U64 == 0 .. MAX

---------------------------------------------------------------------------
(* The application's state *)

\* CollatzApp::new: empty inputs, no values, no sequences, no chart.
\* Option<T> is <<>> for None and <<x>> for Some(x).
InitialApp ==
    [input1 |-> <<>>, input2 |-> <<>>,
     value1 |-> <<>>, value2 |-> <<>>,
     sequence1 |-> <<>>, sequence2 |-> <<>>,
     stats1 |-> <<>>, stats2 |-> <<>>,
     error_message |-> "",
     chart_saved |-> FALSE,
     copied_to_clipboard |-> FALSE,
     chart_path |-> <<>>]

\* The application just constructed: Command::none() (nothing running), no
\* temporary file left (main removes them before the application starts).
AppStart ==
    /\ app = InitialApp
    /\ tasks = {}
    /\ inbox = <<>>
    /\ files = {}
    /\ now = 0
    /\ batches = 0

---------------------------------------------------------------------------
(* generate_sequence *)

\* Variant of LoopCond: the loop waits for 0 instead of 1.
LoopCondWaitsForZero(c) == c # 0

\* `while current != 1`
LoopCond(c) == c # 1

\* `current % 2 == 0`
IsEven(n) == n % 2 = 0

\* Variant of OverflowGuard: the threshold is MAX / 3 instead of (MAX - 1) / 3.
OverflowGuardOffByOne(c) == c > MAX \div 3

\* Variant of OverflowGuard: a threshold of (MAX - 1) / 4, stricter than needed.
OverflowGuardTooStrict(c) == c > (MAX - 1) \div 4

\* `current > (u64::MAX - 1) / 3`
OverflowGuard(c) == c > (MAX - 1) \div 3

\* The control positions at which generate_sequence has returned `sequence`.
Returned == {"zero_return", "loop_exit", "overflow_break"}

\* Entry of generate_sequence(start), for any start of the unsigned domain.
\* `current` is not yet declared; 0 stands for "no value".
Init ==
    /\ pc = "entry"
    /\ start \in U64
    /\ current = 0
    /\ sequence = <<>>
    /\ stats = <<>>
    /\ AppStart

\* Variant of ZeroReturn: no special case, the seed 0 enters the loop.
ZeroEntersLoop ==
    /\ pc = "entry"
    /\ start = 0
    /\ current' = start
    /\ sequence' = <<start>>
    /\ pc' = "while"
    /\ UNCHANGED <<start, stats>>
    /\ UNCHANGED appVars

\* `if start == 0 { return vec![0]; }`
ZeroReturn ==
    /\ pc = "entry"
    /\ start = 0
    /\ sequence' = <<0>>
    /\ pc' = "zero_return"
    /\ UNCHANGED <<start, current, stats>>
    /\ UNCHANGED appVars

\* Variant of Begin: the starting value is not pushed.
BeginWithoutPush ==
    /\ pc = "entry"
    /\ start # 0
    /\ current' = start
    /\ sequence' = <<>>
    /\ pc' = "while"
    /\ UNCHANGED <<start, stats>>
    /\ UNCHANGED appVars

\* `let mut sequence = Vec::new(); let mut current = start; sequence.push(current);`
Begin ==
    /\ pc = "entry"
    /\ start # 0
    /\ current' = start
    /\ sequence' = <<start>>
    /\ pc' = "while"
    /\ UNCHANGED <<start, stats>>
    /\ UNCHANGED appVars

\* Variant of EvenStep: the push comes before the assignment.
EvenStepPushFirst ==
    /\ pc = "while"
    /\ LoopCond(current)
    /\ IsEven(current)
    /\ Len(sequence) < MaxSeqLen
    /\ sequence' = Append(sequence, current)
    /\ current' = current \div 2
    /\ UNCHANGED <<pc, start, stats>>
    /\ UNCHANGED appVars

\* Even branch of the loop body: `current = current / 2; sequence.push(current);`
EvenStep ==
    /\ pc = "while"
    /\ LoopCond(current)
    /\ IsEven(current)
    /\ Len(sequence) < MaxSeqLen
    /\ current' = current \div 2
    /\ sequence' = Append(sequence, current')
    /\ UNCHANGED <<pc, start, stats>>
    /\ UNCHANGED appVars

\* Odd branch, guard not taken: `current = 3 * current + 1; sequence.push(current);`
\* An overflowing multiplication panics (debug build) or wraps (release build).
OddStep ==
    /\ pc = "while"
    /\ LoopCond(current)
    /\ ~IsEven(current)
    /\ ~OverflowGuard(current)
    /\ Len(sequence) < MaxSeqLen
    /\ IF 3 * current + 1 <= MAX
       THEN /\ current' = 3 * current + 1
            /\ sequence' = Append(sequence, current')
            /\ UNCHANGED pc
       ELSE \/ /\ pc' = "panic"
               /\ UNCHANGED <<current, sequence>>
            \/ /\ current' = (3 * current + 1) % Modulus
               /\ sequence' = Append(sequence, current')
               /\ UNCHANGED pc
    /\ UNCHANGED <<start, stats>>
    /\ UNCHANGED appVars

\* Variant of OverflowBreak: the break comes after the (wrapping) calculation.
OverflowBreakAfterCalc ==
    /\ pc = "while"
    /\ LoopCond(current)
    /\ ~IsEven(current)
    /\ OverflowGuard(current)
    /\ Len(sequence) < MaxSeqLen
    /\ current' = (3 * current + 1) % Modulus
    /\ sequence' = Append(sequence, current')
    /\ pc' = "overflow_break"
    /\ UNCHANGED <<start, stats>>
    /\ UNCHANGED appVars

\* Odd branch, guard taken: `sequence.push(current); break;`
OverflowBreak ==
    /\ pc = "while"
    /\ LoopCond(current)
    /\ ~IsEven(current)
    /\ OverflowGuard(current)
    /\ Len(sequence) < MaxSeqLen
    /\ sequence' = Append(sequence, current)
    /\ pc' = "overflow_break"
    /\ UNCHANGED <<start, current, stats>>
    /\ UNCHANGED appVars

\* Variant of LoopExit: the final value is pushed once more, as the guard does.
LoopExitPushesAgain ==
    /\ pc = "while"
    /\ ~LoopCond(current)
    /\ sequence' = Append(sequence, current)
    /\ pc' = "loop_exit"
    /\ UNCHANGED <<start, current, stats>>
    /\ UNCHANGED appVars

\* The loop condition fails: fall through to `sequence` (the return value).
LoopExit ==
    /\ pc = "while"
    /\ ~LoopCond(current)
    /\ pc' = "loop_exit"
    /\ UNCHANGED <<start, current, sequence, stats>>
    /\ UNCHANGED appVars

\* The loop of generate_sequence run to completion, as one value: the same
\* branches as EvenStep, OddStep, OverflowBreak and LoopExit.
RECURSIVE GenLoop(_, _)
GenLoop(cur, seq) ==
    IF ~LoopCond(cur) THEN seq
    ELSE IF IsEven(cur)
         THEN GenLoop(cur \div 2, Append(seq, cur \div 2))
    ELSE IF OverflowGuard(cur) THEN Append(seq, cur)
    ELSE GenLoop((3 * cur + 1) % Modulus,
                 Append(seq, (3 * cur + 1) % Modulus))

\* generate_sequence(start) as the caller sees it.
generate_sequence(n) == IF n = 0 THEN <<0>> ELSE GenLoop(n, <<n>>)

---------------------------------------------------------------------------
(* calculate_stats *)

\* The record returned for an empty sequence.
EmptyStats ==
    [length |-> 0, max_value |-> 0, max_value_index |-> 0,
     even_count |-> 0, odd_count |-> 0, stopping_time |-> 0]

\* Variant of MaxSelect: on equal keys the accumulated (earlier) pair is kept.
MaxSelectKeepsFirst(x, y) == IF x[2] >= y[2] THEN x ELSE y

\* The comparison step of Iterator::max_by_key over (index, value) pairs:
\* the accumulated pair x is kept only when its key is strictly greater than
\* the key of the incoming pair y.
MaxSelect(x, y) == IF x[2] > y[2] THEN x ELSE y

\* `.enumerate().max_by_key(|&(_, &value)| value)`: the fold over the elements
\* from (0-based) index i on, `best` being the pair selected so far.
RECURSIVE MaxByKey(_, _, _)
MaxByKey(seq, i, best) ==
    IF i >= Len(seq) THEN best
    ELSE MaxByKey(seq, i + 1, MaxSelect(best, <<i, seq[i + 1]>>))

\* Variant of EvenCount: 0 is not counted as even.
RECURSIVE EvenCountSkipsZero(_, _)
EvenCountSkipsZero(seq, i) ==
    IF i >= Len(seq) THEN 0
    ELSE (IF seq[i + 1] # 0 /\ seq[i + 1] % 2 = 0 THEN 1 ELSE 0)
         + EvenCountSkipsZero(seq, i + 1)

\* `.filter(|&&n| n % 2 == 0).count()` over the elements from index i on.
RECURSIVE EvenCount(_, _)
EvenCount(seq, i) ==
    IF i >= Len(seq) THEN 0
    ELSE (IF seq[i + 1] % 2 = 0 THEN 1 ELSE 0) + EvenCount(seq, i + 1)

\* Variant of StoppingTime: the comparison is `value <= start_value`.
RECURSIVE StoppingTimeNonStrict(_, _)
StoppingTimeNonStrict(seq, i) ==
    IF i >= Len(seq) THEN Len(seq) - 1
    ELSE IF seq[i + 1] <= seq[1] THEN i
    ELSE StoppingTimeNonStrict(seq, i + 1)

\* Variant of StoppingTime: the default is `length` instead of `length - 1`.
RECURSIVE StoppingTimeDefaultsToLength(_, _)
StoppingTimeDefaultsToLength(seq, i) ==
    IF i >= Len(seq) THEN Len(seq)
    ELSE IF seq[i + 1] < seq[1] THEN i
    ELSE StoppingTimeDefaultsToLength(seq, i + 1)

\* `.enumerate().skip(1).find(|&(_, &value)| value < start_value).map(index)
\*  .unwrap_or(length - 1)`, scanning from index i on.
RECURSIVE StoppingTime(_, _)
StoppingTime(seq, i) ==
    IF i >= Len(seq) THEN Len(seq) - 1
    ELSE IF seq[i + 1] < seq[1] THEN i
    ELSE StoppingTime(seq, i + 1)

calculate_stats(seq) ==
    IF Len(seq) = 0 THEN EmptyStats
    ELSE LET m == MaxByKey(seq, 1, <<0, seq[1]>>)
             even == EvenCount(seq, 0)
         IN  [length |-> Len(seq),
              max_value |-> m[2],
              max_value_index |-> m[1],
              even_count |-> even,
              odd_count |-> Len(seq) - even,
              stopping_time |-> StoppingTime(seq, 1)]

\* `let stats = calculate_stats(&sequence);` on a returned or synthetic sequence.
CalcStats ==
    /\ pc \in Returned \cup {"synthetic"}
    /\ stats = <<>>
    /\ stats' = <<calculate_stats(sequence)>>
    /\ UNCHANGED <<pc, start, current, sequence>>
    /\ UNCHANGED appVars

---------------------------------------------------------------------------
(* Specifications *)

\* The steps of generate_sequence's body.
GenNext ==
    \/ ZeroReturn
    \/ Begin
    \/ EvenStep
    \/ OddStep
    \/ OverflowBreak
    \/ LoopExit

Next == GenNext \/ CalcStats

\* generate_sequence(start) for every start, then calculate_stats on its result.
Spec == Init /\ [][Next]_vars

\* The function body runs to completion once called: a sequential program
\* keeps taking its next step.
LiveSpec == Init /\ [][Next]_vars /\ WF_vars(GenNext)

\* Values of the synthetic sequences: 0..StatMaxVal and the values of the
\* documented example [5, 8, 3, 8, 1].
StatVals == (0 .. StatMaxVal) \cup {1, 3, 5, 8}

\* All sequences over S of length at most n.
SeqsUpTo(S, n) == UNION {[1 .. k -> S] : k \in 0 .. n}

\* calculate_stats called on an arbitrary slice (not produced by the generator).
StatsInit ==
    /\ pc = "synthetic"
    /\ start = 0
    /\ current = 0
    /\ sequence \in SeqsUpTo(StatVals, StatMaxLen)
    /\ stats = <<>>
    /\ AppStart

StatsSpec == StatsInit /\ [][CalcStats]_vars

\* Both kinds of call: generate_sequence on every seed followed by
\* calculate_stats on its result, and calculate_stats on arbitrary slices.
CoreSpec == (Init \/ StatsInit) /\ [][Next]_vars

---------------------------------------------------------------------------
(* The application: text input *)

\* A text is a sequence of one-character strings.
Whitespace == {" "}

DigitChars == <<"0", "1", "2", "3", "4", "5", "6", "7", "8", "9">>

IsDigit(c) == \E i \in 1 .. Len(DigitChars) : DigitChars[i] = c

DigitValue(c) == (CHOOSE i \in 1 .. Len(DigitChars) : DigitChars[i] = c) - 1

\* str::trim: leading and trailing whitespace removed.
RECURSIVE TrimStart(_)
TrimStart(s) ==
    IF s # <<>> /\ Head(s) \in Whitespace THEN TrimStart(Tail(s)) ELSE s

RECURSIVE TrimEnd(_)
TrimEnd(s) ==
    IF s # <<>> /\ s[Len(s)] \in Whitespace
    THEN TrimEnd(SubSeq(s, 1, Len(s) - 1))
    ELSE s

Trim(s) == TrimEnd(TrimStart(s))

\* The digit loop of str::parse::<u64>: Err (<<>>) on a character that is no
\* digit and on a value above u64::MAX, Ok(v) (<<v>>) otherwise.
RECURSIVE ParseDigits(_, _)
ParseDigits(s, acc) ==
    IF s = <<>> THEN <<acc>>
    ELSE IF ~IsDigit(Head(s)) THEN <<>>
    ELSE IF acc * 10 + DigitValue(Head(s)) > MAX THEN <<>>
    ELSE ParseDigits(Tail(s), acc * 10 + DigitValue(Head(s)))

\* str::parse::<u64>: Err on the empty text and on a lone sign; one leading
\* "+" is accepted.
ParseU64(s) ==
    IF s = <<>> THEN <<>>
    ELSE IF Head(s) = "+"
         THEN (IF Tail(s) = <<>> THEN <<>> ELSE ParseDigits(Tail(s), 0))
    ELSE ParseDigits(s, 0)

\* The texts typed into the input boxes: empty, zero, two valid seeds (one
\* padded with a space) and a word.
InputTexts == { <<>>, <<"0">>, <<" ", "6">>, <<"3">>, <<"a">> }

---------------------------------------------------------------------------
(* The application: CollatzApp::update *)

\* Message::Input1Changed(value)
Input1Changed ==
    /\ batches < MaxVisualize
    /\ \E value \in InputTexts : app' = [app EXCEPT !.input1 = value]
    /\ UNCHANGED <<tasks, inbox, files, now, batches>>
    /\ UNCHANGED coreVars

\* Message::Input2Changed(value)
Input2Changed ==
    /\ batches < MaxVisualize
    /\ \E value \in InputTexts : app' = [app EXCEPT !.input2 = value]
    /\ UNCHANGED <<tasks, inbox, files, now, batches>>
    /\ UNCHANGED coreVars

\* collatz::generate_sequence(value) and collatz::calculate_stats(&sequence)
\* for every value of the word, computed once.
SequenceOf == [n \in U64 |-> generate_sequence(n)]
StatsOf == [n \in U64 |-> calculate_stats(SequenceOf[n])]

\* Message::Visualize, first input: the state after the first `match` and
\* whether the handler has returned Command::none() from inside it.
ProcessFirst(a) ==
    LET parsed == ParseU64(Trim(a.input1)) IN
    IF parsed # <<>>
    THEN IF parsed[1] = 0
         THEN [app |-> [a EXCEPT !.error_message =
                                   "The first value must be greater than 0"],
               returned |-> TRUE]
         ELSE [app |-> [a EXCEPT
                          !.value1 = parsed,
                          !.sequence1 = SequenceOf[parsed[1]],
                          !.stats1 = <<StatsOf[parsed[1]]>>],
               returned |-> FALSE]
    ELSE IF Trim(a.input1) # <<>>
         THEN [app |-> [a EXCEPT !.error_message = "Invalid first value"],
               returned |-> FALSE]
         ELSE [app |-> [a EXCEPT !.value1 = <<>>,
                                 !.sequence1 = <<>>,
                                 !.stats1 = <<>>],
               returned |-> FALSE]

\* Variant of ProcessSecond: an empty input clears value2 only.
ProcessSecondKeepsSequence(a) ==
    LET parsed == ParseU64(Trim(a.input2)) IN
    IF parsed # <<>>
    THEN IF parsed[1] = 0
         THEN [app |-> [a EXCEPT !.error_message =
                                   "The value must be greater than 0"],
               returned |-> TRUE]
         ELSE [app |-> [a EXCEPT
                          !.value2 = parsed,
                          !.sequence2 = SequenceOf[parsed[1]],
                          !.stats2 = <<StatsOf[parsed[1]]>>],
               returned |-> FALSE]
    ELSE IF Trim(a.input2) # <<>>
         THEN [app |-> [a EXCEPT !.error_message = "Invalid second value"],
               returned |-> FALSE]
         ELSE [app |-> [a EXCEPT !.value2 = <<>>],
               returned |-> FALSE]

\* Message::Visualize, second input.
ProcessSecond(a) ==
    LET parsed == ParseU64(Trim(a.input2)) IN
    IF parsed # <<>>
    THEN IF parsed[1] = 0
         THEN [app |-> [a EXCEPT !.error_message =
                                   "The value must be greater than 0"],
               returned |-> TRUE]
         ELSE [app |-> [a EXCEPT
                          !.value2 = parsed,
                          !.sequence2 = SequenceOf[parsed[1]],
                          !.stats2 = <<StatsOf[parsed[1]]>>],
               returned |-> FALSE]
    ELSE IF Trim(a.input2) # <<>>
         THEN [app |-> [a EXCEPT !.error_message = "Invalid second value"],
               returned |-> FALSE]
         ELSE [app |-> [a EXCEPT !.value2 = <<>>,
                                 !.sequence2 = <<>>,
                                 !.stats2 = <<>>],
               returned |-> FALSE]

\* Variant of HasSequence: both sequences are required (`&&` for `||`).
HasBothSequences(a) == a.sequence1 # <<>> /\ a.sequence2 # <<>>

\* `!self.sequence1.is_empty() || !self.sequence2.is_empty()`
HasSequence(a) == a.sequence1 # <<>> \/ a.sequence2 # <<>>

\* Message::Visualize up to the chart dispatch: the flags are reset, the two
\* inputs are processed in order, and `dispatch` tells whether the handler
\* reaches the branch that builds the batch.
VisualizeUpdate(a) ==
    LET reset == [a EXCEPT !.error_message = "",
                           !.chart_saved = FALSE,
                           !.copied_to_clipboard = FALSE]
        first == ProcessFirst(reset)
        second == ProcessSecond(first.app)
    IN  IF first.returned THEN [app |-> first.app, dispatch |-> FALSE]
        ELSE IF second.returned THEN [app |-> second.app, dispatch |-> FALSE]
        ELSE [app |-> second.app, dispatch |-> HasSequence(second.app)]

\* format!("temp_collatz_{}.png", now.format("%Y%m%d_%H%M%S")): the prefix
\* and the second.
TempPath(t) == <<"temp_collatz_", t>>

\* `path.contains("temp_collatz_") && path.ends_with(".png")`
IsTempFile(path) == path[1] = "temp_collatz_"

\* Command::perform(cleanup_temp_file(old_path), Message::CleanupOldTempFiles)
CleanupTask(b, path) ==
    [kind |-> "cleanup", batch |-> b, path |-> path, chart |-> <<>>]

\* Command::perform(generate_chart(filename, value1, value2, sequence1,
\* sequence2), Message::ChartGenerated): the sequences are cloned into the task.
GenerateTask(b, path, a) ==
    [kind |-> "generate", batch |-> b, path |-> path,
     chart |-> <<a.sequence1, a.sequence2>>]

\* The batch built by Visualize: the cleanup of the old chart (when there is
\* one) and the generation of the new one. A task is identified by its batch
\* and its kind.
VisualizeBatch(a, b, t) ==
    (IF a.chart_path # <<>> THEN {CleanupTask(b, a.chart_path[1])} ELSE {})
        \cup {GenerateTask(b, TempPath(t), a)}

\* Message::Visualize: the tasks of the returned Command go to the executor
\* (Command::none() adds nothing).
Visualize ==
    /\ batches < MaxVisualize
    /\ batches' = batches + 1
    /\ LET r == VisualizeUpdate(app) IN
       /\ app' = r.app
       /\ tasks' =
            IF r.dispatch
            THEN tasks \cup VisualizeBatch(r.app, batches', now)
            ELSE tasks
    /\ UNCHANGED <<inbox, files, now>>
    /\ UNCHANGED coreVars

\* u64::to_string: the decimal digits, most significant first, no sign, no
\* padding.
DigitOf(d) == DigitChars[d + 1]

RECURSIVE to_string(_)
to_string(n) ==
    IF n < 10 THEN <<DigitOf(n)>>
    ELSE Append(to_string(n \div 10), DigitOf(n % 10))

\* Variant of RandomRange: the range starts at 0 (`0..=max_rand`).
RandomRangeFromZero == 0 .. max_rand

\* rng.gen_range(1..=max_rand)
RandomRange == 1 .. max_rand

\* Message::Randomize: two numbers are drawn, written to the input boxes, and
\* the handler calls self.update(Message::Visualize) and returns its Command.
Randomize ==
    /\ batches < MaxVisualize
    /\ batches' = batches + 1
    /\ \E random1 \in RandomRange, random2 \in RandomRange :
         LET r == VisualizeUpdate([app EXCEPT !.input1 = to_string(random1),
                                              !.input2 = to_string(random2)])
         IN  /\ app' = r.app
             /\ tasks' =
                  IF r.dispatch
                  THEN tasks \cup VisualizeBatch(r.app, batches', now)
                  ELSE tasks
    /\ UNCHANGED <<inbox, files, now>>
    /\ UNCHANGED coreVars

\* format!("collatz_{}.png", now.format("%Y%m%d_%H%M%S"))
SavePath(t) == <<"collatz_", t>>

\* Command::perform(save_chart(chart_path, filename), Message::ChartSaved); the
\* task is identified by the number of Visualize requests handled before it.
SaveTask(b, path, target) ==
    [kind |-> "save", batch |-> b, path |-> path, chart |-> <<>>,
     target |-> target]

\* Command::perform(copy_sequences_to_clipboard(value1, value2, sequence1,
\* sequence2), Message::ClipboardCopied)
CopyTask(b, a) ==
    [kind |-> "copy", batch |-> b, path |-> <<>>,
     chart |-> <<a.sequence1, a.sequence2>>]

\* Variant of SaveChart without the chart_path check.
SaveChartWithoutPathCheck ==
    /\ IF app.sequence1 = <<>> /\ app.sequence2 = <<>>
       THEN /\ app' = [app EXCEPT !.error_message = "Ne sequence to save"]
            /\ tasks' = tasks
       ELSE /\ app' = [app EXCEPT !.chart_saved = FALSE]
            /\ tasks' = tasks \cup
                 {SaveTask(batches,
                           IF app.chart_path = <<>> THEN <<>> ELSE app.chart_path[1],
                           SavePath(now))}
    /\ UNCHANGED <<inbox, files, now, batches>>
    /\ UNCHANGED coreVars

\* Message::SaveChart
SaveChart ==
    /\ IF app.sequence1 = <<>> /\ app.sequence2 = <<>>
       THEN /\ app' = [app EXCEPT !.error_message = "Ne sequence to save"]
            /\ tasks' = tasks
       ELSE IF app.chart_path = <<>>
       THEN /\ app' = [app EXCEPT !.error_message = "No graph to save"]
            /\ tasks' = tasks
       ELSE /\ app' = [app EXCEPT !.chart_saved = FALSE]
            /\ tasks' = tasks \cup
                 {SaveTask(batches, app.chart_path[1], SavePath(now))}
    /\ UNCHANGED <<inbox, files, now, batches>>
    /\ UNCHANGED coreVars

\* Message::CopyToClipboard
CopyToClipboard ==
    /\ IF app.sequence1 = <<>> /\ app.sequence2 = <<>>
       THEN /\ app' = [app EXCEPT !.error_message = "No sequence to copy"]
            /\ tasks' = tasks
       ELSE /\ app' = [app EXCEPT !.copied_to_clipboard = FALSE]
            /\ tasks' = tasks \cup {CopyTask(batches, app)}
    /\ UNCHANGED <<inbox, files, now, batches>>
    /\ UNCHANGED coreVars

\* Message::ChartSaved(result)
ChartSaved(a, msg) ==
    IF msg.ok
    THEN [a EXCEPT !.chart_saved = TRUE, !.error_message = ""]
    ELSE [a EXCEPT !.error_message = "Error while saving"]

\* Message::ClipboardCopied(result)
ClipboardCopied(a, msg) ==
    IF msg.ok
    THEN [a EXCEPT !.copied_to_clipboard = TRUE, !.error_message = ""]
    ELSE [a EXCEPT !.error_message = "Error while copying"]

\* Message::ChartGenerated(result)
ChartGenerated(a, msg) ==
    IF msg.ok
    THEN [a EXCEPT !.chart_path = <<msg.path>>, !.error_message = ""]
    ELSE [a EXCEPT !.error_message = "Error generating chart",
                   !.chart_path = <<>>]

\* Message::CleanupOldTempFiles(result): a warning is printed on Err.
CleanupOldTempFiles(a, msg) == a

\* The runtime delivers the oldest finished task's message to update.
Deliver ==
    /\ inbox # <<>>
    /\ LET msg == Head(inbox) IN
       app' = CASE msg.type = "ChartGenerated" -> ChartGenerated(app, msg)
                [] msg.type = "ChartSaved" -> ChartSaved(app, msg)
                [] msg.type = "ClipboardCopied" -> ClipboardCopied(app, msg)
                [] OTHER -> CleanupOldTempFiles(app, msg)
    /\ inbox' = Tail(inbox)
    /\ UNCHANGED <<tasks, files, now, batches>>
    /\ UNCHANGED coreVars

---------------------------------------------------------------------------
(* The application: the executor and the file system *)

Exists(path) == \E f \in files : f.path = path

\* The files after `path` is written with `chart` (an existing file is
\* overwritten).
Written(path, chart) ==
    {f \in files : f.path # path} \cup {[path |-> path, chart |-> chart]}

\* cleanup_temp_file(path): a temporary file is removed (Err when it is not
\* there), any other path is left alone.
RunCleanup(t) ==
    /\ IF IsTempFile(t.path)
       THEN /\ files' = {f \in files : f.path # t.path}
            /\ inbox' = Append(inbox, [type |-> "CleanupOldTempFiles",
                                       ok |-> Exists(t.path),
                                       path |-> t.path])
       ELSE /\ files' = files
            /\ inbox' = Append(inbox, [type |-> "CleanupOldTempFiles",
                                       ok |-> TRUE,
                                       path |-> t.path])

\* generate_chart(path, ...): Err without a file on two empty sequences; the
\* drawing is written to `path`, or fails with an I/O error.
RunGenerate(t) ==
    \/ /\ t.chart # <<<<>>, <<>>>>
       /\ files' = Written(t.path, t.chart)
       /\ inbox' = Append(inbox, [type |-> "ChartGenerated",
                                  ok |-> TRUE,
                                  path |-> t.path])
    \/ /\ files' = files
       /\ inbox' = Append(inbox, [type |-> "ChartGenerated",
                                  ok |-> FALSE,
                                  path |-> t.path])

\* save_chart(temp_path, target_path): fs::copy creates the target from the
\* temporary file, Err when the temporary file is not there. The application
\* never reads the copy, whose content is left out. The message carries the
\* task's identity.
RunSave(t) ==
    /\ files' = IF Exists(t.path) THEN Written(t.target, <<>>) ELSE files
    /\ inbox' = Append(inbox, [type |-> "ChartSaved",
                               ok |-> Exists(t.path),
                               path |-> t.path,
                               batch |-> t.batch])

\* copy_sequences_to_clipboard(...): Err on two empty sequences and when the
\* system clipboard cannot be opened or set; the clipboard is outside the
\* application's state.
RunCopy(t) ==
    /\ files' = files
    /\ \E ok \in IF t.chart = <<<<>>, <<>>>> THEN {FALSE} ELSE BOOLEAN :
         inbox' = Append(inbox, [type |-> "ClipboardCopied",
                                 ok |-> ok,
                                 path |-> <<>>])

\* The executor runs one of the futures handed to it, in any order.
RunTask ==
    \E t \in tasks :
        /\ CASE t.kind = "cleanup" -> RunCleanup(t)
             [] t.kind = "save" -> RunSave(t)
             [] t.kind = "copy" -> RunCopy(t)
             [] OTHER -> RunGenerate(t)
        /\ tasks' = tasks \ {t}
        /\ UNCHANGED <<app, now, batches>>
        /\ UNCHANGED coreVars

\* A second passes (the clock is read for the file names only).
Tick ==
    /\ now < MaxTime
    /\ batches < MaxVisualize
    /\ now' = now + 1
    /\ UNCHANGED <<app, tasks, inbox, files, batches>>
    /\ UNCHANGED coreVars

\* The application is not inside a call of the core functions' harness.
AppInit ==
    /\ pc = "app"
    /\ start = 0
    /\ current = 0
    /\ sequence = <<>>
    /\ stats = <<>>
    /\ AppStart

AppNext ==
    \/ Input1Changed
    \/ Input2Changed
    \/ Visualize
    \/ Deliver
    \/ RunTask
    \/ Tick

AppSpec == AppInit /\ [][AppNext]_vars

\* No task is waiting in the executor and no result is waiting for update.
Quiescent == tasks = {} /\ inbox = <<>>

\* No chart generation or cleanup is running or waiting to be delivered.
ChartIdle ==
    /\ \A t \in tasks : t.kind \notin {"generate", "cleanup"}
    /\ \A i \in 1 .. Len(inbox) :
          inbox[i].type \notin {"ChartGenerated", "CleanupOldTempFiles"}

\* The patient user waits for every result before the next request, and stops
\* after the last Visualize.
AwaitsAll == batches < MaxVisualize /\ Quiescent

\* The eager user waits for the chart only: a Visualize may be sent while a
\* save or a copy is still running.
AwaitsChart == batches < MaxVisualize /\ ChartIdle

\* The whole interface within one second, used patiently: every message of
\* update and the executor.
UiNext ==
    \/ AwaitsAll /\ Input1Changed
    \/ AwaitsAll /\ Input2Changed
    \/ AwaitsAll /\ Visualize
    \/ AwaitsAll /\ Randomize
    \/ AwaitsAll /\ SaveChart
    \/ AwaitsAll /\ CopyToClipboard
    \/ Deliver
    \/ RunTask

UiSpec == AppInit /\ [][UiNext]_vars

\* The whole interface within one second, used eagerly.
EagerNext ==
    \/ AwaitsChart /\ Input1Changed
    \/ AwaitsChart /\ Input2Changed
    \/ AwaitsChart /\ Visualize
    \/ AwaitsChart /\ Randomize
    \/ AwaitsAll /\ SaveChart
    \/ AwaitsAll /\ CopyToClipboard
    \/ Deliver
    \/ RunTask

EagerSpec == AppInit /\ [][EagerNext]_vars

---------------------------------------------------------------------------
(* The reference the properties are stated against *)

\* The Syracuse rule of the documentation, over the unbounded integers.
T(n) == IF n % 2 = 0 THEN n \div 2 ELSE 3 * n + 1

\* n is an odd value above the guard's threshold.
GuardValue(n) == n % 2 = 1 /\ n > (MAX - 1) \div 3

\* The orbit n, T(n), T(T(n)), ... (n >= 1) up to and including the first 1,
\* or up to the first value the overflow guard would stop.
RECURSIVE Orbit(_)
Orbit(n) == IF n = 1 \/ GuardValue(n) THEN <<n>> ELSE <<n>> \o Orbit(T(n))

\* c is odd and 3c + 1 does not fit the integer width.
OverflowValue(c) == c % 2 = 1 /\ 3 * c + 1 > MAX

Last(seq) == seq[Len(seq)]

---------------------------------------------------------------------------
(* Properties of generate_sequence *)

\* C1: for every seed >= 1 whose orbit never meets the overflow guard (it
\* reaches 1 first), the returned sequence is the reference trajectory seed,
\* T(seed), ... up to and including the first 1.
GenerateMatchesReference ==
    (pc \in Returned /\ start >= 1 /\ Last(Orbit(start)) = 1)
        => sequence = Orbit(start)

\* A call on the documented example has returned [6, 3, 10, 5, 16, 8, 4, 2, 1].
SixReturned ==
    /\ pc = "loop_exit"
    /\ start = 6
    /\ Last(Orbit(6)) = 1
    /\ sequence = <<6, 3, 10, 5, 16, 8, 4, 2, 1>>

\* C2: for every seed >= 1 and every returned trajectory, normally terminated
\* or truncated, every element after the first is T of its predecessor.
EveryElementFollowsRule ==
    (pc \in Returned /\ start >= 1)
        => \A i \in 2 .. Len(sequence) : sequence[i] = T(sequence[i - 1])

\* C3: for every seed, 0 included, the returned trajectory is non-empty and
\* its element 0 is the seed.
NonEmptyStartsWithSeed ==
    pc \in Returned => (Len(sequence) >= 1 /\ sequence[1] = start)

\* A trajectory of several elements has been returned for a seed above 1.
LongTrajectoryReturned ==
    pc \in Returned /\ start > 1 /\ Len(sequence) >= 3 /\ sequence[1] = start

\* A step of the loop body that applies the transition rule.
RuleApplied == EvenStep \/ OddStep

\* C4: generate_sequence(0) returns exactly [0], generate_sequence(1) returns
\* exactly [1], and neither call applies the transition rule.
ZeroAndOneFixed ==
    /\ []((pc \in Returned /\ start = 0) => sequence = <<0>>)
    /\ []((pc \in Returned /\ start = 1) => sequence = <<1>>)
    /\ [][(start \in {0, 1}) => ~RuleApplied]_vars

\* The call with seed 1 has returned through the loop's exit.
OneReturned == pc = "loop_exit" /\ start = 1 /\ sequence = <<1>>

\* C5: in every trajectory that terminates normally, 1 occurs exactly once,
\* as the final element.
OneOnlyAtEnd ==
    pc = "loop_exit"
        => /\ Last(sequence) = 1
           /\ \A i \in 1 .. Len(sequence) - 1 : sequence[i] # 1

\* A normally terminated trajectory of several elements.
NormalExitAfterSteps ==
    pc = "loop_exit" /\ Len(sequence) >= 4 /\ Last(sequence) = 1

\* C6: generate_sequence is total: from every seed of the unsigned domain the
\* call eventually returns, through the zero case, by reaching 1 or through
\* the overflow guard.
GenerateTerminates == <>(pc \in Returned)

\* The longest runs: a call that returned after more than 30 pushes.
LongRunReturned == pc \in Returned /\ Len(sequence) > 30

\* C7: once a step reaches an odd value c with 3c + 1 above the maximum, the
\* call stops at that step: c is not 1, nothing but the final copy of c
\* follows it, and the returned trajectory ends with c.
TruncatesAtOverflow ==
    /\ pc # "panic"
    /\ \A i \in 1 .. Len(sequence) :
         OverflowValue(sequence[i]) =>
            /\ sequence[i] # 1
            /\ \/ i = Len(sequence) /\ pc = "while"
               \/ /\ pc = "overflow_break"
                  /\ i >= Len(sequence) - 1
                  /\ Last(sequence) = sequence[i]

\* A truncated call whose overflowing value was reached after several steps.
TruncatedAfterSteps ==
    /\ pc = "overflow_break"
    /\ Len(sequence) >= 4
    /\ OverflowValue(current)
    /\ Last(sequence) = current

\* C8: for every seed >= 1 the call ended through the overflow guard iff the
\* last element is not 1, and ended normally iff the last element is 1.
TruncationObservable ==
    (pc \in Returned /\ start >= 1)
        => /\ pc = "overflow_break" <=> Last(sequence) # 1
           /\ pc = "loop_exit" <=> Last(sequence) = 1

\* A truncated return of an even seed: its last element is not 1.
TruncatedEvenSeed ==
    pc = "overflow_break" /\ start % 2 = 0 /\ Last(sequence) # 1

\* C9: the multiplication never overflows: whenever 3 * current + 1 is about
\* to be evaluated its mathematical value is at most the maximum, and every
\* element of the vector is the exact value (T of its predecessor, or the
\* final copy pushed by the guard).
NoOverflow ==
    /\ pc # "panic"
    /\ ENABLED OddStep => 3 * current + 1 <= MAX
    /\ \A i \in 1 .. Len(sequence) : sequence[i] \in U64
    /\ \A i \in 2 .. Len(sequence) :
         \/ sequence[i] = T(sequence[i - 1])
         \/ /\ pc = "overflow_break"
            /\ i = Len(sequence)
            /\ sequence[i] = sequence[i - 1]

\* An odd step was taken from the largest odd value the guard lets through.
LargestOddStepTaken ==
    \E i \in 1 .. Len(sequence) - 1 :
        /\ sequence[i] % 2 = 1
        /\ sequence[i] <= (MAX - 1) \div 3
        /\ sequence[i] + 2 > (MAX - 1) \div 3
        /\ sequence[i + 1] = 3 * sequence[i] + 1

---------------------------------------------------------------------------
(* Properties of calculate_stats *)

\* C10: for every non-empty sequence, max_value is the largest element and
\* max_value_index is the last index holding it; sequence[max_value_index]
\* is max_value and max_value_index < length.
MaxIsLastLargest ==
    (stats # <<>> /\ Len(sequence) > 0) =>
        LET r == stats[1] IN
        /\ r.max_value_index \in 0 .. Len(sequence) - 1
        /\ sequence[r.max_value_index + 1] = r.max_value
        /\ \A i \in 1 .. Len(sequence) : sequence[i] <= r.max_value
        /\ \A i \in r.max_value_index + 2 .. Len(sequence) :
             sequence[i] < r.max_value

\* The documented tie: [5, 8, 3, 8, 1] gives max_value 8 at index 3.
TieExampleComputed ==
    /\ sequence = <<5, 8, 3, 8, 1>>
    /\ stats # <<>>
    /\ stats[1].max_value = 8
    /\ stats[1].max_value_index = 3

\* C11: when some element at an index >= 1 is strictly less than element 0,
\* stopping_time is the smallest such index: it is at least 1 and every
\* element at the indices 1 .. stopping_time - 1 is >= element 0.
StoppingTimeIsFirstDrop ==
    (stats # <<>> /\ \E i \in 2 .. Len(sequence) : sequence[i] < sequence[1]) =>
        LET k == stats[1].stopping_time IN
        /\ k \in 1 .. Len(sequence) - 1
        /\ sequence[k + 1] < sequence[1]
        /\ \A j \in 1 .. k - 1 : sequence[j + 1] >= sequence[1]

\* The statistics of the trajectory of 6: the first drop is at index 1.
SixStoppingTime ==
    /\ pc = "loop_exit"
    /\ sequence = <<6, 3, 10, 5, 16, 8, 4, 2, 1>>
    /\ stats # <<>>
    /\ stats[1].stopping_time = 1

\* C12: for every non-empty sequence with no element after index 0 strictly
\* smaller than element 0, stopping_time is length - 1.
StoppingTimeDefault ==
    (/\ stats # <<>>
     /\ Len(sequence) > 0
     /\ \A i \in 2 .. Len(sequence) : sequence[i] >= sequence[1])
        => stats[1].stopping_time = Len(sequence) - 1

\* The statistics of a truncated trajectory that never drops below its seed.
TruncatedNeverDrops ==
    /\ pc = "overflow_break"
    /\ Len(sequence) >= 3
    /\ \A i \in 2 .. Len(sequence) : sequence[i] >= sequence[1]
    /\ stats # <<>>
    /\ stats[1].stopping_time = Len(sequence) - 1

\* C13: for every sequence, length is the element count, even_count the
\* number of elements divisible by two (0 is even), odd_count is
\* length - even_count, and length = even_count + odd_count.
CountsPartitionLength ==
    stats # <<>> =>
        LET r == stats[1] IN
        /\ r.length = Len(sequence)
        /\ r.even_count =
             Cardinality({i \in 1 .. Len(sequence) : sequence[i] % 2 = 0})
        /\ r.odd_count =
             Cardinality({i \in 1 .. Len(sequence) : sequence[i] % 2 = 1})
        /\ r.odd_count = r.length - r.even_count
        /\ r.length = r.even_count + r.odd_count

\* The statistics of the seed-zero trajectory [0]: one even element, no odd one.
ZeroTrajectoryCounted ==
    /\ pc = "zero_return"
    /\ sequence = <<0>>
    /\ stats # <<>>
    /\ stats[1].length = 1
    /\ stats[1].even_count = 1
    /\ stats[1].odd_count = 0

\* C14: calculate_stats on the empty sequence returns the all-zero record,
\* and generate_sequence never returns an empty sequence.
EmptyOnlySynthetic ==
    /\ (stats # <<>> /\ sequence = <<>>) =>
          stats[1] = [length |-> 0, max_value |-> 0, max_value_index |-> 0,
                      even_count |-> 0, odd_count |-> 0, stopping_time |-> 0]
    /\ pc \in Returned => sequence # <<>>

\* calculate_stats has been applied to the empty slice.
EmptyStatsComputed ==
    /\ pc = "synthetic"
    /\ sequence = <<>>
    /\ stats # <<>>
    /\ stats[1].length = 0

\* C18: the overflow guard is exact: at an odd value it fires iff 3c + 1
\* exceeds the maximum, so a call is truncated only at a value whose
\* successor does not fit.
GuardExact ==
    /\ (pc = "while" /\ LoopCond(current) /\ ~IsEven(current))
          => (OverflowGuard(current) <=> 3 * current + 1 > MAX)
    /\ pc = "overflow_break" => 3 * current + 1 > MAX

\* A call truncated at the smallest value the guard stops, and (through the
\* seed just below it) an odd step taken at the largest one it lets through.
TruncatedAtThreshold ==
    /\ pc = "overflow_break"
    /\ current = (MAX - 1) \div 3 + 1
    /\ 3 * (current - 2) + 1 <= MAX

---------------------------------------------------------------------------
(* Properties of the application *)

\* What the application stores for each input slot.
Slot1(a) == <<a.value1, a.sequence1, a.stats1>>
Slot2(a) == <<a.value2, a.sequence2, a.stats2>>

\* The text is not empty after trimming and does not parse as a u64.
NonNumeric(text) == Trim(text) # <<>> /\ ParseU64(Trim(text)) = <<>>

ZeroMessages ==
    {"The first value must be greater than 0", "The value must be greater than 0"}

\* The tasks handed to the executor by the step.
Issued == tasks' \ tasks

\* C16: when Visualize is handled, what is stored for a slot depends only on
\* that slot's own input text and previous state: with any other text in the
\* other input box the slot would hold the same value, sequence and statistics.
SlotsIndependent ==
    [][Visualize =>
         \A x \in InputTexts :
            /\ Slot1(app') = Slot1(VisualizeUpdate([app EXCEPT !.input2 = x]).app)
            /\ Slot2(app') = Slot2(VisualizeUpdate([app EXCEPT !.input1 = x]).app)
      ]_vars

\* C17: update validates before calling the core. In a Visualize step a slot is
\* left alone, cleared (empty input) or computed from a parsed value >= 1; an
\* input that parses to 0 leaves a 'must be greater than 0' message and issues
\* no command; a non-empty non-numeric input leaves its slot alone and sets an
\* 'Invalid ... value' message (the first slot's message may be replaced by the
\* second slot's own validation message).
ValidatesBeforeCore ==
    [][Visualize =>
         /\ \/ Slot1(app') = Slot1(app)
            \/ Trim(app.input1) = <<>> /\ Slot1(app') = <<<<>>, <<>>, <<>>>>
            \/ /\ ParseU64(Trim(app.input1)) # <<>>
               /\ ParseU64(Trim(app.input1))[1] >= 1
               /\ app'.value1 = ParseU64(Trim(app.input1))
         /\ \/ Slot2(app') = Slot2(app)
            \/ Trim(app.input2) = <<>> /\ Slot2(app') = <<<<>>, <<>>, <<>>>>
            \/ /\ ParseU64(Trim(app.input2)) # <<>>
               /\ ParseU64(Trim(app.input2))[1] >= 1
               /\ app'.value2 = ParseU64(Trim(app.input2))
         /\ (ParseU64(Trim(app.input1)) = <<0>> \/ ParseU64(Trim(app.input2)) = <<0>>)
               => (app'.error_message \in ZeroMessages /\ Issued = {})
         /\ NonNumeric(app.input1)
               => /\ Slot1(app') = Slot1(app)
                  /\ app'.error_message \in
                       {"Invalid first value", "Invalid second value",
                        "The value must be greater than 0"}
         /\ NonNumeric(app.input2)
               => /\ Slot2(app') = Slot2(app)
                  /\ app'.error_message = "Invalid second value"
      ]_vars

\* A chart generation is among the tasks the step hands to the executor.
IssuesGenerate == \E t \in Issued : t.kind = "generate"

CleanupBeforeGenerate ==
    [][\A t \in tasks :
          (t.kind = "generate" /\ t \notin tasks' /\ files' = Written(t.path, t.chart)
             /\ inbox' # inbox /\ inbox'[Len(inbox')].ok)
             => ~\E c \in tasks : c.kind = "cleanup" /\ c.batch = t.batch
      ]_vars

\* C21: the temporary file names are unique, so no cleanup deletes the chart
\* of its own or of a later generation: whenever chart_path is Some(p) and
\* nothing is pending, the file p exists.
ChartFileExists ==
    (app.chart_path # <<>> /\ Quiescent) => Exists(app.chart_path[1])

\* C22: Randomize writes two decimal integers of 1 .. max_rand to the input
\* boxes and then does what Visualize does on them: both values are Some of a
\* number in the range, both sequences are non-empty and end in 1, there is
\* no error message, and a chart generation is issued.
RandomizeVisualizes ==
    [][Randomize =>
         /\ \E n1 \in 1 .. max_rand, n2 \in 1 .. max_rand :
               /\ ParseU64(app'.input1) = <<n1>>
               /\ ParseU64(app'.input2) = <<n2>>
               /\ app'.value1 = <<n1>>
               /\ app'.value2 = <<n2>>
         /\ \A i \in 1 .. Len(app'.input1) : IsDigit(app'.input1[i])
         /\ \A i \in 1 .. Len(app'.input2) : IsDigit(app'.input2[i])
         /\ app' = VisualizeUpdate([app EXCEPT !.input1 = app'.input1,
                                               !.input2 = app'.input2]).app
         /\ app'.sequence1 # <<>> /\ Last(app'.sequence1) = 1
         /\ app'.sequence2 # <<>> /\ Last(app'.sequence2) = 1
         /\ app'.error_message = ""
         /\ IssuesGenerate
      ]_vars

\* Randomize drew 2 and 1 (texts nobody types in this model) after an earlier
\* request, and its chart generation is waiting in the executor.
RandomizedTwoOne ==
    /\ batches = 2
    /\ app.input1 = <<"2">>
    /\ app.input2 = <<"1">>
    /\ app.sequence1 = <<2, 1>>
    /\ app.sequence2 = <<1>>
    /\ \E t \in tasks : t.kind = "generate" /\ t.batch = 2

\* C23: SaveChart starts a save task exactly when a sequence is non-empty
\* and chart_path is Some; otherwise it sets error_message, issues nothing
\* and leaves every other field (chart_saved included) as it was.
\* CopyToClipboard starts a copy task only when a sequence is non-empty.
SaveAndCopyGuarded ==
    [][/\ SaveChart =>
            IF (app.sequence1 # <<>> \/ app.sequence2 # <<>>)
                  /\ app.chart_path # <<>>
            THEN \E t \in tasks' : t.kind = "save" /\ t.path = app.chart_path[1]
            ELSE /\ Issued = {}
                 /\ app'.error_message # ""
                 /\ app' = [app EXCEPT !.error_message = app'.error_message]
       /\ CopyToClipboard =>
            IF app.sequence1 # <<>> \/ app.sequence2 # <<>>
            THEN \E t \in tasks' : t.kind = "copy"
            ELSE Issued = {} /\ app'.error_message # ""
      ]_vars

\* SaveChart was refused for lack of a chart: a sequence is there, chart_path
\* is None, and nothing was handed to the executor.
SaveRefusedWithoutChart ==
    /\ app.error_message = "No graph to save"
    /\ app.sequence1 # <<>>
    /\ app.chart_path = <<>>
    /\ tasks = {}

\* The three fields of a slot agree: all None/empty, or Some(v) with v >= 1,
\* the sequence generate_sequence(v) and the statistics of that sequence.
SlotConsistent(slot) ==
    /\ (slot[1] # <<>>) <=> (slot[2] # <<>>)
    /\ (slot[2] # <<>>) <=> (slot[3] # <<>>)
    /\ slot[1] # <<>> =>
          /\ slot[1][1] >= 1
          /\ slot[2] = generate_sequence(slot[1][1])
          /\ slot[3] = <<calculate_stats(slot[2])>>

\* C24: in every reachable state and for each slot, value is Some iff the
\* sequence is non-empty iff stats is Some, and value = Some(v) means v >= 1,
\* sequence = generate_sequence(v) and stats = calculate_stats(sequence).
SlotsConsistent == SlotConsistent(Slot1(app)) /\ SlotConsistent(Slot2(app))

\* The second Visualize computed slot 1 for the seed 6 and found the second
\* input box empty.
SlotSetAndSlotCleared ==
    /\ batches = 2
    /\ app.value1 = <<6>>
    /\ app.sequence1 = <<6, 3, 10, 5, 16, 8, 4, 2, 1>>
    /\ app.stats1 # <<>>
    /\ app.input2 = <<>>
    /\ Slot2(app) = <<<<>>, <<>>, <<>>>>

\* The messages Visualize sets when an input fails validation.
ValidationMessages ==
    ZeroMessages \cup {"Invalid first value", "Invalid second value"}

\* C25: a validation error of Visualize is not lost. When Visualize finds a
\* non-empty input that is non-numeric or 0, error_message is non-empty when
\* it returns, and no task result delivered before the next user request
\* empties it (Visualize is the only user request that touches error_message
\* in AppSpec).
ValidationErrorKept ==
    [][/\ (Visualize /\ (\/ NonNumeric(app.input1) \/ NonNumeric(app.input2)
                         \/ ParseU64(Trim(app.input1)) = <<0>>
                         \/ ParseU64(Trim(app.input2)) = <<0>>))
            => app'.error_message # ""
       /\ (Deliver /\ app.error_message \in ValidationMessages)
            => app'.error_message # ""
      ]_vars

\* C26: chart_saved reflects the current chart. A ChartSaved(Ok) that
\* belongs to a save requested before the latest Visualize does not set
\* chart_saved back to true, and chart_saved is true only while chart_path
\* refers to a chart.
SavedFlagCurrent ==
    [][Deliver =>
         /\ (/\ Head(inbox).type = "ChartSaved"
             /\ Head(inbox).ok
             /\ Head(inbox).batch < batches)
               => ~app'.chart_saved
         /\ app'.chart_saved => app'.chart_path # <<>>
      ]_vars

\* C27: when Visualize requests overlap, the last one wins. Once every task
\* has completed and every result has been delivered, the only temporary
\* chart file left is the one chart_path refers to: the charts of earlier
\* requests have been deleted and the chart shown is the most recent one
\* (stated for the runs in which no generation failed).
LastVisualizeWins ==
    (Quiescent /\ app.error_message = "") =>
        \A f \in files : IsTempFile(f.path) => app.chart_path = <<f.path>>

===========================================================================
